---- MODULE Spec2Model ----
(***************************************************************************)
(* A model of ygw-p1mon (src/src/p1mon.rs): the P1 telegram framer         *)
(* (P1Mon::process_serial_data), the telegram dispatcher                   *)
(* (P1Mon::process_p1telegram), the group-line parser (split_p1_line),     *)
(* the value and timestamp decoders (get_pvalue, get_timestamp) and the    *)
(* session loop (P1Mon::run).                                              *)
(*                                                                         *)
(* Text is a sequence of character codes.  The serial stream delivers      *)
(* ASCII only (one byte per character), so the character index that        *)
(* split_p1_line takes from chars().enumerate() and the byte offset it     *)
(* slices with are the same number.                                        *)
(***************************************************************************)
EXTENDS Integers, Sequences, FiniteSets, TLC

\* ------------------------------------------------------------------------
\* Bounds of the model
\* ------------------------------------------------------------------------

\* lines the stream may deliver after a start line before it must deliver an
\* end-marker line, a read error or end of stream
MaxBody == 3

\* value batches the process may emit (caps seq_count)
MaxSeq == 2

\* longest input of the group-line parser in SpecSplit
MaxSplitLen == 6

\* most lines of the obiscodes.csv that SpecCodes loads
MaxCsv == 3

\* ------------------------------------------------------------------------
\* Characters the code names
\* ------------------------------------------------------------------------

\* b'/' the start marker
SLASH == 47

\* b'!' the end marker
BANG == 33

\* '(' and ')' of the group grammar
LPAREN == 40

RPAREN == 41

\* "*" between value and unit
STAR == 42

\* 'S' the DST flag closing a timestamp
DST == 83

\* line terminators known to read_line and str::lines
NL == 10

CR == 13

\* '+' and '-' signs, '.' decimal point, as from_str / from_str_radix read them
PLUS == 43

MINUS == 45

DOT == 46

IsDigit(c) == c >= 48 /\ c <= 57

DigitVal(c) == c - 48

IsHexDigit(c) == IsDigit(c) \/ (c >= 65 /\ c <= 70) \/ (c >= 97 /\ c <= 102)

HexVal(c) == IF IsDigit(c) THEN c - 48 ELSE IF c >= 97 THEN c - 87 ELSE c - 55

\* ------------------------------------------------------------------------
\* Text helpers (Rust std)
\* ------------------------------------------------------------------------

\* &s[from..to] with 0-based byte offsets, to exclusive
Slice(s, from, to) == SubSeq(s, from + 1, to)

\* str::get(from..to): None when the range leaves the text
GetSlice(s, from, to) ==
    IF from <= to /\ to <= Len(s)
    THEN [some |-> TRUE, val |-> Slice(s, from, to)]
    ELSE [some |-> FALSE, val |-> <<>>]

\* str::split(sep).collect(): n separators give n + 1 pieces, the k-th piece
\* lying between the (k-1)-th and the k-th separator
Split(s, sep) ==
    LET P == {i \in 1..Len(s) : s[i] = sep}
        n == Cardinality(P)
        pos(k) == IF k = 0 THEN 0
                  ELSE IF k > n THEN Len(s) + 1
                  ELSE CHOOSE i \in P : Cardinality({j \in P : j < i}) = k - 1
    IN [k \in 1..(n + 1) |-> SubSeq(s, pos(k - 1) + 1, pos(k) - 1)]

StripCR(l) == IF Len(l) > 0 /\ l[Len(l)] = CR THEN SubSeq(l, 1, Len(l) - 1) ELSE l

\* str::lines(): split at "\n", a "\r" before it is dropped, and a text that
\* ends in "\n" has no empty last line
LinesOf(pieces) ==
    [i \in 1..(IF pieces[Len(pieces)] = <<>> THEN Len(pieces) - 1 ELSE Len(pieces))
       |-> StripCR(pieces[i])]

Lines(s) == LinesOf(Split(s, NL))

EndsWith(s, c) == Len(s) > 0 /\ s[Len(s)] = c

\* the digits of s[i..] read as a decimal number
RECURSIVE DecFrom(_, _, _)
DecFrom(s, i, acc) ==
    IF i > Len(s) THEN acc ELSE DecFrom(s, i + 1, acc * 10 + DigitVal(s[i]))

AllDigits(s) == \A i \in 1..Len(s) : IsDigit(s[i])

\* ------------------------------------------------------------------------
\* Group-line parser
\* ------------------------------------------------------------------------

\* the scan's state before the first character: state 0 (before), k = 0
SplitStart == [state |-> 0, k |-> 0, result |-> <<>>, err |-> FALSE]

\* the scan with the check of '(' inside a group left out
split_step_nocheck(acc, s, i) ==
    LET c == s[i + 1] IN
    IF acc.err THEN acc
    ELSE IF c = LPAREN THEN
        IF acc.state = 0
        THEN [acc EXCEPT !.result = Append(@, Slice(s, 0, i)), !.state = 1, !.k = i]
        ELSE [acc EXCEPT !.state = 1, !.k = i]
    ELSE IF c = RPAREN THEN
        IF acc.state # 1 THEN [acc EXCEPT !.err = TRUE]
        ELSE [acc EXCEPT !.result = Append(@, Slice(s, acc.k + 1, i)), !.state = 2]
    ELSE acc

\* one turn of `for (i, c) in p1line.chars().enumerate()`; i counts from 0;
\* err stands for the early `return Err(..)`
split_step(acc, s, i) ==
    LET c == s[i + 1] IN
    IF acc.err THEN acc
    ELSE IF c = LPAREN THEN
        IF acc.state = 0
        THEN [acc EXCEPT !.result = Append(@, Slice(s, 0, i)), !.state = 1, !.k = i]
        ELSE IF acc.state # 2 THEN [acc EXCEPT !.err = TRUE]
        ELSE [acc EXCEPT !.state = 1, !.k = i]
    ELSE IF c = RPAREN THEN
        IF acc.state # 1 THEN [acc EXCEPT !.err = TRUE]
        ELSE [acc EXCEPT !.result = Append(@, Slice(s, acc.k + 1, i)), !.state = 2]
    ELSE acc

RECURSIVE split_scan(_, _, _)
split_scan(acc, s, i) ==
    IF acc.err \/ i >= Len(s) THEN acc ELSE split_scan(split_step(acc, s, i), s, i + 1)

\* Ok(v) is [ok |-> TRUE, v |-> v]; Err(DecodeError) is [ok |-> FALSE, v |-> <<>>]
split_p1_line(p1line) ==
    LET fin == split_scan(SplitStart, p1line, 0) IN
    IF fin.err \/ fin.state # 2
    THEN [ok |-> FALSE, v |-> <<>>]
    ELSE [ok |-> TRUE, v |-> fin.result]

\* ------------------------------------------------------------------------
\* Number parsers (Rust core), on text made of digits, signs, '.' and
\* letters that spell neither an exponent nor inf / nan
\* ------------------------------------------------------------------------

None == [some |-> FALSE]

Some(x) == [some |-> TRUE, val |-> x]

Unsigned(s) == IF Len(s) > 0 /\ s[1] \in {PLUS, MINUS} THEN Tail(s) ELSE s

IsNeg(s) == Len(s) > 0 /\ s[1] = MINUS

\* str::parse::<i64>: an optional sign, then one digit or more
parse_i64(s) ==
    LET d == Unsigned(s) IN
    IF Len(d) = 0 \/ ~AllDigits(d) THEN None
    ELSE Some(IF IsNeg(s) THEN 0 - DecFrom(d, 1, 0) ELSE DecFrom(d, 1, 0))

RECURSIVE StripZeros(_)
StripZeros(d) ==
    IF Len(d) > 0 /\ d[Len(d)] = 48 THEN StripZeros(SubSeq(d, 1, Len(d) - 1)) ELSE d

\* str::parse::<f32/f64>: an optional sign, digits with at most one '.', one
\* digit at least; the value is kept exact as mant / 10^scale
float_digits(neg, ip, fz) ==
    Some([neg |-> neg, mant |-> DecFrom(ip \o fz, 1, 0), scale |-> Len(fz)])

float_parts(neg, ip, fp) ==
    IF ~AllDigits(ip) \/ ~AllDigits(fp) \/ Len(ip) + Len(fp) = 0
    THEN None
    ELSE float_digits(neg, ip, StripZeros(fp))

float_split(neg, parts) ==
    IF Len(parts) > 2 THEN None
    ELSE float_parts(neg, parts[1], IF Len(parts) > 1 THEN parts[2] ELSE <<>>)

parse_float(s) == float_split(IsNeg(s), Split(Unsigned(s), DOT))

RECURSIVE HexFrom(_, _, _)
HexFrom(s, i, acc) ==
    IF i > Len(s) THEN acc ELSE HexFrom(s, i + 1, acc * 16 + HexVal(s[i]))

\* u16::from_str_radix(hex, 16): an optional '+', then hex digits of either
\* case; the four characters given never overflow 16 bits
from_str_radix16(hex) ==
    LET d == IF Len(hex) > 0 /\ hex[1] = PLUS THEN Tail(hex) ELSE hex IN
    IF Len(d) = 0 \/ ~(\A i \in 1..Len(d) : IsHexDigit(d[i])) THEN None
    ELSE Some(HexFrom(d, 1, 0))

\* ------------------------------------------------------------------------
\* CRC-16/ARC (crc16 crate): reflected polynomial 0xA001, initial value 0
\* ------------------------------------------------------------------------

RECURSIVE Xor(_, _)
Xor(a, b) ==
    IF a = 0 THEN b ELSE IF b = 0 THEN a
    ELSE ((a + b) % 2) + 2 * Xor(a \div 2, b \div 2)

\* one bit: shift right, and take the polynomial in when a 1 falls out
crc_shift(crc) == IF crc % 2 = 1 THEN Xor(crc \div 2, 40961) ELSE crc \div 2

RECURSIVE crc_bits(_, _)
crc_bits(crc, n) == IF n = 0 THEN crc ELSE crc_shift(crc_bits(crc, n - 1))

\* the crate's byte table
CrcTable == [b \in 0..255 |-> crc_bits(b, 8)]

\* xor of two 4-bit numbers, tabulated
XorNibble == [a \in 0..15 |-> [b \in 0..15 |-> Xor(a, b)]]

\* xor of two bytes, tabulated
XorByte ==
    [a \in 0..255 |-> [b \in 0..255 |->
        16 * XorNibble[a \div 16][b \div 16] + XorNibble[a % 16][b % 16]]]

\* State::update for one byte: crc = (crc >> 8) ^ TABLE[(crc ^ b) & 0xff];
\* crc >> 8 has no high byte, so the high byte is the table entry's
crc_byte(crc, b) ==
    LET t == CrcTable[XorByte[crc % 256][b]] IN
    256 * (t \div 256) + XorByte[crc \div 256][t % 256]

\* State::update over bytes[lo..hi], first byte to last, from the register
\* value crc (a u16, looked at before the bytes are taken in)
RECURSIVE crc_range(_, _, _, _)
crc_range(crc, bytes, lo, hi) ==
    IF crc < 0 \/ lo > hi THEN crc
    ELSE IF lo = hi THEN crc_byte(crc, bytes[lo])
    ELSE LET mid == (lo + hi) \div 2 IN
         crc_range(crc_range(crc, bytes, lo, mid), bytes, mid + 1, hi)

\* State::<ARC>::calculate: the register starts at 0 and is not inverted
crc16(bytes) == crc_range(0, bytes, 1, Len(bytes))

\* ------------------------------------------------------------------------
\* Timestamp decoder
\* ------------------------------------------------------------------------

\* chrono's scan::number(s, 1, 2) from 1-based position p: one or two digits,
\* as many as there are; n = 0 when there is none
ScanNum(s, p) ==
    IF p <= Len(s) /\ IsDigit(s[p])
    THEN IF p + 1 <= Len(s) /\ IsDigit(s[p + 1])
         THEN [n |-> 2, v |-> DigitVal(s[p]) * 10 + DigitVal(s[p + 1])]
         ELSE [n |-> 1, v |-> DigitVal(s[p])]
    ELSE [n |-> 0, v |-> 0]

IsLeap(y) == (y % 4 = 0 /\ y % 100 # 0) \/ y % 400 = 0

DaysIn(y, m) ==
    IF m = 2 THEN (IF IsLeap(y) THEN 29 ELSE 28)
    ELSE IF m \in {4, 6, 9, 11} THEN 30 ELSE 31

\* %y: a year below 70 is 20yy
YearOf(yy) == yy + (IF yy < 70 THEN 2000 ELSE 1900)

\* the k fields still to scan from position p, after the fields in acc; the
\* scan stops at a field without a digit
RECURSIVE scan_fields(_, _, _, _)
RECURSIVE scan_next(_, _, _, _, _)
scan_fields(acc, s, p, k) ==
    IF k = 0 THEN acc ELSE scan_next(acc, ScanNum(s, p), s, p, k)

scan_next(acc, f, s, p, k) ==
    IF f.n = 0 THEN Append(acc, f)
    ELSE scan_fields(Append(acc, f), s, p + f.n, k - 1)

\* the date and time of the six fields f, scanned from a text of length len
datetime_of(f, len) ==
    IF Len(f) < 6 \/ f[6].n = 0
       \/ f[1].n + f[2].n + f[3].n + f[4].n + f[5].n + f[6].n # len
       \/ f[2].v < 1 \/ f[2].v > 12
       \/ f[3].v < 1 \/ f[3].v > DaysIn(YearOf(f[1].v), f[2].v)
       \/ f[4].v > 23 \/ f[5].v > 59 \/ f[6].v > 60
    THEN None
    ELSE Some([year |-> YearOf(f[1].v), month |-> f[2].v, day |-> f[3].v,
               hour |-> f[4].v, minute |-> f[5].v,
               second |-> IF f[6].v = 60 THEN 59 ELSE f[6].v])

\* NaiveDateTime::parse_from_str(s, "%y%m%d%H%M%S"): six numbers of one or two
\* digits each, nothing after them, a real date and time
parse_datetime(s) == datetime_of(scan_fields(<<>>, s, 1, 6), Len(s))

\* the Timestamp of an instant is kept as the DateTimeComponents that
\* utc_to_instant is given (millis: 0)
instant_of(dt) == IF dt.some THEN Some(dt.val @@ [millis |-> 0]) ELSE None

get_timestamp(str_value) ==
    instant_of(parse_datetime(IF EndsWith(str_value, DST)
                              THEN Slice(str_value, 0, Len(str_value) - 1)
                              ELSE str_value))

\* ------------------------------------------------------------------------
\* Parameter registry
\* ------------------------------------------------------------------------

\* the reserved names "ignore" and "timestamp"
STR_ignore == <<105, 103, 110, 111, 114, 101>>

STR_timestamp == <<116, 105, 109, 101, 115, 116, 97, 109, 112>>

\* ',' between the fields of a record, '#' opening a comment line
COMMA == 44

HASH == 35

ToLower(s) == [i \in 1..Len(s) |-> IF s[i] >= 65 /\ s[i] <= 90 THEN s[i] + 32 ELSE s[i]]

\* DmsrParamType::from_str
DmsrParamType_from_str(s) ==
    LET l == ToLower(s) IN
    IF l = <<102, 108, 111, 97, 116>> THEN Some("Float")
    ELSE IF l = <<105, 110, 116, 101, 103, 101, 114>> THEN Some("Integer")
    ELSE IF l = <<115, 116, 114, 105, 110, 103>> THEN Some("String")
    ELSE None

\* HashMap::insert: a later record of the same code replaces the earlier one
MapInsert(m, key, val) ==
    [c \in DOMAIN m \cup {key} |-> IF c = key THEN val ELSE m[c]]

EmptyMap == [c \in {} |-> 0]

\* a loader that numbers a record by the size of the map
read_codes_insert_len(acc, parts, pt) ==
    IF ~pt.some THEN [acc EXCEPT !.ok = FALSE]
    ELSE [acc EXCEPT
            !.m = MapInsert(@, parts[1],
                            [name |-> parts[2], ptype |-> pt.val,
                             description |-> parts[4],
                             defined |-> FALSE,
                             pid |-> Cardinality(DOMAIN acc.m)]),
            !.pid = @ + 1]

\* a record of four fields whose kind is pt: the code takes the next pid
read_codes_insert(acc, parts, pt) ==
    IF ~pt.some THEN [acc EXCEPT !.ok = FALSE]
    ELSE [acc EXCEPT
            !.m = MapInsert(@, parts[1],
                            [name |-> parts[2], ptype |-> pt.val,
                             description |-> parts[4],
                             defined |-> FALSE, pid |-> acc.pid]),
            !.pid = @ + 1]

read_codes_record(acc, parts) ==
    IF Len(parts) = 4
    THEN read_codes_insert(acc, parts, DmsrParamType_from_str(parts[3]))
    ELSE [acc EXCEPT !.ok = FALSE]

\* one turn of `for line in reader.lines()`: acc = [ok, m, pid]
read_codes_step(acc, line) ==
    IF ~acc.ok THEN acc
    ELSE IF line = <<>> \/ line[1] = HASH THEN acc
    ELSE read_codes_record(acc, Split(line, COMMA))

RECURSIVE read_codes_from(_, _, _)
read_codes_from(acc, lines, i) ==
    IF i > Len(lines) THEN acc
    ELSE read_codes_from(read_codes_step(acc, lines[i]), lines, i + 1)

\* read_codes over the lines of obiscodes.csv
read_codes(lines) == read_codes_from([ok |-> TRUE, m |-> EmptyMap, pid |-> 0], lines, 1)

\* the obiscodes.csv of the model:
\*   # c
\*   A,v,float,d
\*   (an empty line)
\*   B,n,Integer,d
\*   C,s,string,d
\*   T,timestamp,String,d
\*   I,ignore,float,d
ObisCsv ==
    << <<35, 32, 99>>,
       <<65, 44, 118, 44, 102, 108, 111, 97, 116, 44, 100>>,
       <<>>,
       <<66, 44, 110, 44, 73, 110, 116, 101, 103, 101, 114, 44, 100>>,
       <<67, 44, 115, 44, 115, 116, 114, 105, 110, 103, 44, 100>>,
       <<84, 44, 116, 105, 109, 101, 115, 116, 97, 109, 112, 44, 83, 116, 114, 105,
         110, 103, 44, 100>>,
       <<73, 44, 105, 103, 110, 111, 114, 101, 44, 102, 108, 111, 97, 116, 44, 100>> >>

\* ------------------------------------------------------------------------
\* Value decoder and telegram dispatcher
\* ------------------------------------------------------------------------

get_pdef(dmsr_param, unit) ==
    [relative_name |-> dmsr_param.name,
     description |-> Some(dmsr_param.description),
     unit |-> unit,
     ptype |-> dmsr_param.ptype,
     writable |-> Some(FALSE),
     id |-> dmsr_param.pid]

\* .ok().map(|x| Value { v: Some(V::<kind>(x)) })
value_of(kind, parsed) ==
    IF parsed.some THEN Some([kind |-> kind, v |-> parsed.val]) ELSE None

\* Option<Value> for the parameter's kind
eng_value_of(ptype, str_value) ==
    IF ptype = "Float" THEN value_of("FloatValue", parse_float(str_value))
    ELSE IF ptype = "Integer" THEN value_of("Sint64Value", parse_i64(str_value))
    ELSE Some([kind |-> "StringValue", v |-> str_value])

get_pvalue(dmsr_param, str_value) ==
    Some([id |-> dmsr_param.pid,
          eng_value |-> eng_value_of(dmsr_param.ptype, str_value)])

\* the ignore test that never skips
is_ignored_never(dmsr_param) == FALSE

\* dmsr_param.name == "ignore"
is_ignored(dmsr_param) == dmsr_param.name = STR_ignore

\* the first-use bookkeeping that forgets to set the flag
mark_defined_forgets(dmsr_param) == dmsr_param

\* dmsr_param.defined = true
mark_defined(dmsr_param) == [dmsr_param EXCEPT !.defined = TRUE]

\* what process_p1telegram holds before its first line
DispatchStart(obis) ==
    [obis |-> obis, pdefs |-> <<>>, pvalues |-> <<>>, gentime |-> None]

\* a queue of values that grows at its front
push_pvalue_front(acc, pvalue) ==
    IF pvalue.some THEN [acc EXCEPT !.pvalues = <<pvalue.val>> \o @] ELSE acc

\* if let Some(pvalue) = get_pvalue(..) { pvalues.push(pvalue) }
push_pvalue(acc, pvalue) ==
    IF pvalue.some THEN [acc EXCEPT !.pvalues = Append(@, pvalue.val)] ELSE acc

\* a timestamp branch that keeps the first timestamp of the telegram
take_value_first(acc, dmsr_param, str_value) ==
    IF dmsr_param.name = STR_timestamp
    THEN (IF acc.gentime.some THEN acc
          ELSE [acc EXCEPT !.gentime = get_timestamp(str_value)])
    ELSE push_pvalue(acc, get_pvalue(dmsr_param, str_value))

\* the timestamp / value branch for the text a[0] before the first '*'
take_value(acc, dmsr_param, str_value) ==
    IF dmsr_param.name = STR_timestamp
    THEN [acc EXCEPT !.gentime = get_timestamp(str_value)]
    ELSE push_pvalue(acc, get_pvalue(dmsr_param, str_value))

\* a first use that sets the flag and queues no definition
first_use_unqueued(acc, code, dmsr_param, unit) ==
    IF ~dmsr_param.defined
    THEN [acc EXCEPT !.obis[code] = mark_defined(dmsr_param)]
    ELSE acc

\* if !dmsr_param.defined { pdefs.push(get_pdef(dmsr_param, unit)); .. }
first_use(acc, code, dmsr_param, unit) ==
    IF ~dmsr_param.defined
    THEN [acc EXCEPT !.pdefs = Append(@, get_pdef(dmsr_param, unit)),
                     !.obis[code] = mark_defined(dmsr_param)]
    ELSE acc

\* a = v[1].split("*"); unit = a.get(1)
with_groups(acc, code, dmsr_param, a) ==
    take_value(first_use(acc, code, dmsr_param,
                         IF Len(a) > 1 THEN Some(a[2]) ELSE None),
               dmsr_param, a[1])

\* the line of a code the registry has
with_param(acc, code, dmsr_param, group) ==
    IF is_ignored(dmsr_param) THEN acc
    ELSE with_groups(acc, code, dmsr_param, Split(group, STAR))

\* r is what split_p1_line gave for the line
with_split(acc, r) ==
    IF ~r.ok THEN acc
    ELSE IF r.v[1] \notin DOMAIN acc.obis THEN acc
    ELSE with_param(acc, r.v[1], acc.obis[r.v[1]], r.v[2])

\* one turn of `for line in p1t.lines()`
process_line(acc, line) ==
    IF line = <<>> THEN acc ELSE with_split(acc, split_p1_line(line))

\* a loop over the lines that ends at the first line split_p1_line refuses
RECURSIVE process_lines_stop(_, _, _)
process_lines_stop(acc, lines, i) ==
    IF i > Len(lines) THEN acc
    ELSE IF lines[i] # <<>> /\ ~split_p1_line(lines[i]).ok THEN acc
    ELSE process_lines_stop(process_line(acc, lines[i]), lines, i + 1)

RECURSIVE process_lines(_, _, _)
process_lines(acc, lines, i) ==
    IF i > Len(lines) THEN acc
    ELSE process_lines(process_line(acc, lines[i]), lines, i + 1)

\* the sequence counter that stands still
next_seq_stuck(seq) == seq

\* p1mon_state.seq_count += 1
next_seq(seq) == seq + 1

\* the parameter group main.rs gives P1Mon::new: "p1mon"
ParameterGroup == <<112, 49, 109, 111, 110>>

\* the end of process_p1telegram, fin being what the lines left: the registry
\* and counter it leaves, and the messages it hands to tx.send, in order
send_queued(fin, seq, now) ==
    LET defs == IF Len(fin.pdefs) > 0
                THEN <<[type |-> "ParameterDefinitions", definitions |-> fin.pdefs]>>
                ELSE <<>>
        generation_time == IF fin.gentime.some THEN fin.gentime ELSE Some(now)
        data == IF Len(fin.pvalues) > 0
                THEN <<[type |-> "ParameterData",
                        parameters |-> fin.pvalues,
                        group |-> ParameterGroup,
                        seq_num |-> seq,
                        generation_time |-> generation_time,
                        acquisition_time |-> Some(now)]>>
                ELSE <<>>
    IN [obis |-> fin.obis,
        seq |-> IF Len(fin.pvalues) > 0 THEN next_seq(seq) ELSE seq,
        pdefs |-> fin.pdefs,
        pvalues |-> fin.pvalues,
        gentime |-> fin.gentime,
        msgs |-> defs \o data]

process_p1telegram(obis, seq, p1t, now) ==
    send_queued(process_lines(DispatchStart(obis), Lines(p1t), 1), seq, now)

\* ------------------------------------------------------------------------
\* State
\* ------------------------------------------------------------------------

VARIABLES
    pc,          \* where P1Mon::run stands: "run", "open", "reading", "returned", "done"
    link_state,  \* LinkStatus: "Ok" until state_failed makes it "Failed"
    run_result,  \* what run returned: "none", "Ok", "Err"
    p1t,         \* process_serial_data: the line buffer
    state,       \* process_serial_data: the ParserState
    m_idx,       \* process_serial_data: the length of the start line
    obis_codes,  \* P1Mon.obis_codes
    seq_count,   \* P1MonState.seq_count
    rx_closed,   \* p1mon_state.rx.is_closed()
    tx_closed,   \* the receiver of p1mon_state.tx is gone: tx.send fails
    out,         \* the messages the last step handed to tx.send, in order
    ev,          \* the last step of the task: what it read, did and started from
    defs_queued, \* per numeric id, the ParameterDefinitions queued so far
    val_ids,     \* the numeric ids a ParameterValue was queued for so far
    seq_log,     \* the seq_num of every ParameterData handed to tx.send so far
    sp_in,       \* SpecSplit: the line given to split_p1_line
    sp_out,      \* SpecSplit: what split_p1_line returned
    cs_in,       \* SpecCodes: the lines of obiscodes.csv
    cs_out       \* SpecCodes: what read_codes returned, and the registry since

taskvars == <<pc, link_state, run_result, p1t, state, m_idx, obis_codes, seq_count,
              out, ev, defs_queued, val_ids, seq_log>>

splitvars == <<sp_in, sp_out, cs_in, cs_out>>

vars == <<pc, link_state, run_result, p1t, state, m_idx, obis_codes, seq_count,
          rx_closed, tx_closed, out, ev, defs_queued, val_ids, seq_log, sp_in, sp_out,
          cs_in, cs_out>>

\* ------------------------------------------------------------------------
\* Telegram framer
\* ------------------------------------------------------------------------

\* the checksum test that leaves the end marker out of the range
crc_matches_short(crc, buf, n_idx) == crc = crc16(Slice(buf, 0, n_idx))

\* crc == crc16::State::<crc16::ARC>::calculate(&p1t.as_bytes()[0..n_idx + 1])
crc_matches(crc, buf, n_idx) == crc = crc16(Slice(buf, 0, n_idx + 1))

\* a framer that starts over at each line that begins with '/'
frame_line_restart(loc, line) ==
    LET n_idx == Len(loc.p1t)
        buf == loc.p1t \o line
        same == [p1t |-> buf, state |-> loc.state, m_idx |-> loc.m_idx,
                 what |-> "append", accept |-> FALSE, body |-> <<>>]
        reset == [same EXCEPT !.p1t = <<>>, !.state = "LookForStart"]
    IN IF loc.state = "LookForStart"
       THEN IF buf[1] = SLASH
            THEN [same EXCEPT !.state = "LookForEnd", !.m_idx = Len(buf), !.what = "start"]
            ELSE [same EXCEPT !.p1t = <<>>, !.what = "skip"]
       ELSE IF buf[n_idx + 1] = SLASH
            THEN [same EXCEPT !.p1t = line, !.m_idx = Len(line), !.what = "start"]
       ELSE IF buf[n_idx + 1] = BANG
            THEN LET hex == GetSlice(buf, n_idx + 1, n_idx + 5) IN
                 IF ~hex.some THEN [reset EXCEPT !.what = "nohex"]
                 ELSE LET crc == from_str_radix16(hex.val) IN
                      IF ~crc.some THEN [same EXCEPT !.what = "badhex"]
                      ELSE IF ~crc_matches(crc.val, buf, n_idx)
                      THEN [reset EXCEPT !.what = "crcfail"]
                      ELSE [reset EXCEPT !.what = "accept", !.accept = TRUE,
                                         !.body = Slice(buf, loc.m_idx, n_idx)]
            ELSE same

\* the body of `match state` for a line read_line appended: loc = [p1t, state,
\* m_idx] at the top of the loop; `accept` asks for process_p1telegram on `body`
frame_line(loc, line) ==
    LET n_idx == Len(loc.p1t)
        buf == loc.p1t \o line
        same == [p1t |-> buf, state |-> loc.state, m_idx |-> loc.m_idx,
                 what |-> "append", accept |-> FALSE, body |-> <<>>]
        reset == [same EXCEPT !.p1t = <<>>, !.state = "LookForStart"]
    IN IF loc.state = "LookForStart"
       THEN IF buf[1] = SLASH
            THEN [same EXCEPT !.state = "LookForEnd", !.m_idx = Len(buf), !.what = "start"]
            ELSE [same EXCEPT !.p1t = <<>>, !.what = "skip"]
       ELSE IF buf[n_idx + 1] = BANG
            THEN LET hex == GetSlice(buf, n_idx + 1, n_idx + 5) IN
                 IF ~hex.some THEN [reset EXCEPT !.what = "nohex"]
                 ELSE LET crc == from_str_radix16(hex.val) IN
                      IF ~crc.some THEN [same EXCEPT !.what = "badhex"]
                      ELSE IF ~crc_matches(crc.val, buf, n_idx)
                      THEN [reset EXCEPT !.what = "crcfail"]
                      ELSE [reset EXCEPT !.what = "accept", !.accept = TRUE,
                                         !.body = Slice(buf, loc.m_idx, n_idx)]
            ELSE same

\* a transient read error that clears the buffer and keeps the state
after_read_error_stays(loc) == [loc EXCEPT !.p1t = <<>>]

\* a transient read error that keeps the buffer
after_read_error_keeps(loc) == [loc EXCEPT !.state = "LookForStart"]

\* Err(e) of read_line: p1t.clear(); state = LookForStart; continue
after_read_error(loc) == [loc EXCEPT !.p1t = <<>>, !.state = "LookForStart"]

\* the match on read_line's result with Err(e) returned to the caller
read_outcome_strict(res) == IF res = "OkN" THEN "proceed" ELSE "return_err"

\* the match on read_line's result: Ok(0) returns the error, Err(e) goes on
\* with the next read, any other Ok(n) falls through to the framer
read_outcome(res) ==
    IF res = "Ok0" THEN "return_err" ELSE IF res = "Err" THEN "continue" ELSE "proceed"

\* ------------------------------------------------------------------------
\* What the stream and the clock may deliver
\* ------------------------------------------------------------------------

\* "/H\n"
StartLine == <<47, 72, 10>>

\* "A(1*V)\n"  "A(x)\n"  "T(240506201011S)\n"  "T(240506201012S)\n"
\* "T(0)\n"  "I(7)\n"  "Z(1)\n"  "A(1\n"
BodyLines ==
    { <<65, 40, 49, 42, 86, 41, 10>>,
      <<65, 40, 120, 41, 10>>,
      <<84, 40, 50, 52, 48, 53, 48, 54, 50, 48, 49, 48, 49, 49, 83, 41, 10>>,
      <<84, 40, 50, 52, 48, 53, 48, 54, 50, 48, 49, 48, 49, 50, 83, 41, 10>>,
      <<84, 40, 48, 41, 10>>,
      <<73, 40, 55, 41, 10>>,
      <<90, 40, 49, 41, 10>>,
      <<65, 40, 49, 10>> }

HexDigits == <<48, 49, 50, 51, 52, 53, 54, 55, 56, 57, 65, 66, 67, 68, 69, 70>>

\* the meter's four upper-case hex digits of a 16-bit number
Hex4(n) ==
    << HexDigits[((n \div 4096) % 16) + 1], HexDigits[((n \div 256) % 16) + 1],
       HexDigits[((n \div 16) % 16) + 1], HexDigits[(n % 16) + 1] >>

\* the end line a meter closes the buffered telegram with
GoodEndLine(buf) == <<BANG>> \o Hex4(crc16(buf \o <<BANG>>)) \o <<NL>>

\* "!0000\n" (a checksum of another telegram), "!12\n" (too short),
\* "!00G0\n" (not hex)
BadEndLines ==
    { <<33, 48, 48, 48, 48, 10>>, <<33, 49, 50, 10>>, <<33, 48, 48, 71, 48, 10>> }

\* lines of the buffer after the start line
BodyCount(buf) == Cardinality({i \in 1..Len(buf) : buf[i] = NL}) - 1

\* an end line the framer answers by clearing the buffer
Releases(l) ==
    LET hex == GetSlice(l, 1, 5) IN ~hex.some \/ from_str_radix16(hex.val).some

\* the lines the stream may deliver next, endline being the end line that fits
\* the buffer: once MaxBody lines follow the start line, only end lines that
\* release the buffer
StreamLines(endline) ==
    IF state = "LookForStart"
    THEN {StartLine} \cup BodyLines \cup BadEndLines
    ELSE (IF BodyCount(p1t) < MaxBody
          THEN {StartLine} \cup BodyLines \cup BadEndLines
          ELSE {l \in BadEndLines : Releases(l)})
         \cup (IF seq_count < MaxSeq THEN {endline} ELSE {})

\* ygw::protobuf::now(): the wall clock; two readings, both later than any
\* time a telegram of the model carries
NowTimes ==
    { [year |-> 2026, month |-> 1, day |-> 1, hour |-> 0, minute |-> 0,
       second |-> 0, millis |-> ms] : ms \in {1, 2} }

\* ------------------------------------------------------------------------
\* The task: P1Mon::run and the read loop of process_serial_data
\* ------------------------------------------------------------------------

Registry == read_codes(ObisCsv).m

Pids == {Registry[c].pid : c \in DOMAIN Registry}

\* the record of a step: op and read say which step, what says the framer's
\* branch, ret what process_serial_data returned; st0, seq0 and obis0 are the
\* parser state, counter and registry the step started from; line is the line
\* read, left empty for the end line whose checksum is the buffer's (good);
\* refs are the registry codes the lines of an accepted telegram name, lines
\* those lines
NoEvent ==
    [op |-> "init", read |-> "none", what |-> "none", ret |-> "none",
     st0 |-> "LookForStart", line |-> <<>>, good |-> FALSE,
     accept |-> FALSE, now |-> None,
     seq0 |-> 0, obis0 |-> Registry, refs |-> {},
     pdefs |-> <<>>, pvalues |-> <<>>, gentime |-> None, lines |-> <<>>]

Event(op) ==
    [NoEvent EXCEPT !.op = op, !.st0 = state,
                    !.seq0 = seq_count, !.obis0 = obis_codes]

\* v[0] of the line is the code c
names_code(r, c) == r.ok /\ r.v[1] = c

LineNames(line, c) == line # <<>> /\ names_code(split_p1_line(line), c)

\* the registry codes that the lines name
CodesOf(lines) ==
    {c \in DOMAIN Registry : \E i \in 1..Len(lines) : LineNames(lines[i], c)}

\* tx.send(msg).await of each message: it fails once the receiver is gone
Sent(msgs) == [i \in 1..Len(msgs) |-> [msg |-> msgs[i], ok |-> ~tx_closed]]

Init ==
    /\ pc = "run"
    /\ link_state = "Ok"
    /\ run_result = "none"
    /\ p1t = <<>>
    /\ state = "LookForStart"
    /\ m_idx = 0
    /\ obis_codes = Registry
    /\ seq_count = 0
    /\ rx_closed = FALSE
    /\ tx_closed = FALSE
    /\ out = <<>>
    /\ ev = NoEvent
    /\ defs_queued = [i \in Pids |-> 0]
    /\ val_ids = {}
    /\ seq_log = <<>>
    /\ sp_in = <<>>
    /\ sp_out = None
    /\ cs_in = <<>>
    /\ cs_out = None

\* run: link_status.send(&state.tx).await?
SendLinkStatus ==
    /\ pc = "run"
    /\ out' = Sent(<<[type |-> "LinkStatus", state |-> link_state]>>)
    /\ ev' = [Event("status") EXCEPT !.ret = IF tx_closed THEN "Err" ELSE "none"]
    /\ pc' = IF tx_closed THEN "done" ELSE "open"
    /\ run_result' = IF tx_closed THEN "Err" ELSE run_result
    /\ UNCHANGED <<link_state, p1t, state, m_idx, obis_codes, seq_count,
                   rx_closed, tx_closed, defs_queued, val_ids, seq_log>>
    /\ UNCHANGED splitvars

\* process_serial_data up to its loop: try_clone succeeds
OpenPort ==
    /\ pc = "open"
    /\ p1t' = <<>>
    /\ state' = "LookForStart"
    /\ m_idx' = 0
    /\ pc' = "reading"
    /\ ev' = Event("open")
    /\ out' = <<>>
    /\ UNCHANGED <<link_state, run_result, obis_codes, seq_count,
                   rx_closed, tx_closed, defs_queued, val_ids, seq_log>>
    /\ UNCHANGED splitvars

\* process_serial_data up to its loop: try_clone fails and the error is
\* returned to run, which marks the link failed
OpenFails ==
    /\ pc = "open"
    /\ link_state' = "Failed"
    /\ pc' = "returned"
    /\ ev' = [Event("open") EXCEPT !.ret = "Err"]
    /\ out' = <<>>
    /\ UNCHANGED <<run_result, p1t, state, m_idx, obis_codes, seq_count,
                   rx_closed, tx_closed, defs_queued, val_ids, seq_log>>
    /\ UNCHANGED splitvars

\* `while !p1mon_state.rx.is_closed()` ends the loop: Ok(()); the locals p1t,
\* state and m_idx end with the call
LoopExit ==
    /\ pc = "reading"
    /\ rx_closed
    /\ pc' = "returned"
    /\ p1t' = <<>>
    /\ state' = "LookForStart"
    /\ m_idx' = 0
    /\ ev' = [Event("exit") EXCEPT !.ret = "Ok"]
    /\ out' = <<>>
    /\ UNCHANGED <<link_state, run_result, obis_codes, seq_count,
                   rx_closed, tx_closed, defs_queued, val_ids, seq_log>>
    /\ UNCHANGED splitvars

CountIds(recs, id) == Cardinality({i \in 1..Len(recs) : recs[i].id = id})

SeqNums(msgs) ==
    LET RECURSIVE from(_)
        from(i) == IF i > Len(msgs) THEN <<>>
                   ELSE (IF msgs[i].type = "ParameterData"
                         THEN <<msgs[i].seq_num>> ELSE <<>>) \o from(i + 1)
    IN from(1)

\* the loop goes on to its next turn without a telegram: the framer's locals
\* are n, nothing is sent
NoTelegram(n, e) ==
    /\ p1t' = n.p1t
    /\ state' = n.state
    /\ m_idx' = n.m_idx
    /\ ev' = e
    /\ out' = <<>>
    /\ UNCHANGED <<pc, link_state, obis_codes, seq_count,
                   defs_queued, val_ids, seq_log>>

\* sends that take back what the telegram wrote when the receiver is gone
after_sends_undo(d, obis, seq, ok) ==
    IF ok THEN [obis |-> d.obis, seq |-> d.seq] ELSE [obis |-> obis, seq |-> seq]

\* `let _ = p1mon_state.tx.send(..).await`: the result of a send is dropped,
\* so the registry and counter d that the telegram wrote stay, whether the
\* sends went through (ok) or not; obis and seq are those before the telegram
after_sends(d, obis, seq, ok) == [obis |-> d.obis, seq |-> d.seq]

\* the framer accepted the telegram and process_p1telegram gave d
Telegram(f, d, e, now) ==
    /\ p1t' = f.p1t
    /\ state' = f.state
    /\ m_idx' = f.m_idx
    /\ obis_codes' = after_sends(d, obis_codes, seq_count, ~tx_closed).obis
    /\ seq_count' = after_sends(d, obis_codes, seq_count, ~tx_closed).seq
    /\ out' = Sent(d.msgs)
    /\ ev' = [e EXCEPT !.what = f.what, !.accept = TRUE, !.now = Some(now),
                       !.refs = CodesOf(Lines(f.body)),
                       !.pdefs = d.pdefs, !.pvalues = d.pvalues,
                       !.gentime = d.gentime, !.lines = Lines(f.body)]
    /\ defs_queued' = [i \in Pids |-> defs_queued[i] + CountIds(d.pdefs, i)]
    /\ val_ids' = val_ids \cup {d.pvalues[i].id : i \in 1..Len(d.pvalues)}
    /\ seq_log' = seq_log \o SeqNums(d.msgs)
    /\ UNCHANGED <<pc, link_state>>

\* the rest of the turn after read_line appended a line: f is what the framer
\* made of it
Framed(f, e, now) ==
    IF f.accept
    THEN Telegram(f, process_p1telegram(obis_codes, seq_count, f.body, now), e, now)
    ELSE NoTelegram(f, [e EXCEPT !.what = f.what])

\* the turn for what read_line's result asks for (todo), from the locals loc;
\* a return ends the locals, and run marks the link failed
Turn(todo, loc, e, line, now) ==
    IF todo = "return_err"
    THEN /\ pc' = "returned"
         /\ link_state' = "Failed"
         /\ p1t' = <<>>
         /\ state' = "LookForStart"
         /\ m_idx' = 0
         /\ ev' = [e EXCEPT !.ret = "Err"]
         /\ out' = <<>>
         /\ UNCHANGED <<obis_codes, seq_count, defs_queued, val_ids, seq_log>>
    ELSE IF todo = "continue"
    THEN NoTelegram(after_read_error(loc), e)
    ELSE Framed(frame_line(loc, line), e, now)

\* `while !p1mon_state.rx.is_closed()` lets the loop take a turn
InLoop == pc = "reading" /\ ~rx_closed

\* one turn of the read loop for read_line's result res ("Ok0", "Err", "OkN"),
\* the line it appended and the clock reading process_p1telegram takes; endline
\* is the end line that fits the buffer, by which the step is recorded as good
Iterate(res, line, endline, now) ==
    /\ Turn(read_outcome(res),
            [p1t |-> p1t, state |-> state, m_idx |-> m_idx],
            [Event("read") EXCEPT
               !.read = res,
               !.good = res = "OkN" /\ state = "LookForEnd" /\ line = endline,
               !.line = IF res = "OkN" /\ state = "LookForEnd" /\ line = endline
                        THEN <<>> ELSE line],
            line, now)
    /\ UNCHANGED <<run_result, rx_closed, tx_closed>>
    /\ UNCHANGED splitvars

\* read_line gives Ok(0): the stream has ended
ReadEof ==
    /\ InLoop
    /\ Iterate("Ok0", <<>>, <<>>, CHOOSE t \in NowTimes : TRUE)

\* read_line gives Err(e): a timeout, a broken byte sequence
ReadError ==
    /\ InLoop
    /\ Iterate("Err", <<>>, <<>>, CHOOSE t \in NowTimes : TRUE)

\* read_line appends a line
ReadLine ==
    /\ InLoop
    /\ \E endline \in {IF state = "LookForEnd" THEN GoodEndLine(p1t) ELSE <<>>} :
         \E line \in StreamLines(endline) :
           \E now \in (IF state = "LookForEnd" /\ line[1] = BANG
                       THEN NowTimes ELSE {CHOOSE t \in NowTimes : TRUE}) :
             Iterate("OkN", line, endline, now)

\* run after process_serial_data returned: leave when the channel is closed,
\* else sleep ten seconds and start the next session
AfterSession ==
    /\ pc = "returned"
    /\ pc' = IF rx_closed THEN "done" ELSE "run"
    /\ run_result' = IF rx_closed THEN "Ok" ELSE run_result
    /\ ev' = Event("after")
    /\ out' = <<>>
    /\ UNCHANGED <<link_state, p1t, state, m_idx, obis_codes, seq_count,
                   rx_closed, tx_closed, defs_queued, val_ids, seq_log>>
    /\ UNCHANGED splitvars

\* the hosting server closes the channel the task watches
CloseRx ==
    /\ ~rx_closed
    /\ pc # "done"
    /\ rx_closed' = TRUE
    /\ UNCHANGED taskvars
    /\ UNCHANGED tx_closed
    /\ UNCHANGED splitvars

\* the hosting server drops the receiver of the task's messages
CloseTx ==
    /\ ~tx_closed
    /\ pc # "done"
    /\ tx_closed' = TRUE
    /\ UNCHANGED taskvars
    /\ UNCHANGED rx_closed
    /\ UNCHANGED splitvars

Next ==
    \/ SendLinkStatus
    \/ OpenPort
    \/ OpenFails
    \/ LoopExit
    \/ ReadEof
    \/ ReadError
    \/ ReadLine
    \/ AfterSession
    \/ CloseRx

Spec == Init /\ [][Next]_vars

\* the same task when the receiver of its messages may go away
NextTx == Next \/ CloseTx

SpecTx == Init /\ [][NextTx]_vars

\* ------------------------------------------------------------------------
\* split_p1_line on its own: every line of at most MaxSplitLen characters
\* over '(', ')', 'a' and 'b'
\* ------------------------------------------------------------------------

SplitAlphabet == {LPAREN, RPAREN, 97, 98}

SplitInputs == UNION {[1..n -> SplitAlphabet] : n \in 0..MaxSplitLen}

InitSplit ==
    /\ sp_in \in SplitInputs
    /\ sp_out = None
    /\ cs_in = <<>>
    /\ cs_out = None
    /\ pc = "run"
    /\ link_state = "Ok"
    /\ run_result = "none"
    /\ p1t = <<>>
    /\ state = "LookForStart"
    /\ m_idx = 0
    /\ obis_codes = Registry
    /\ seq_count = 0
    /\ rx_closed = FALSE
    /\ tx_closed = FALSE
    /\ out = <<>>
    /\ ev = NoEvent
    /\ defs_queued = [i \in Pids |-> 0]
    /\ val_ids = {}
    /\ seq_log = <<>>

\* the call split_p1_line(sp_in)
ApplySplit ==
    /\ sp_out = None
    /\ sp_out' = Some(split_p1_line(sp_in))
    /\ UNCHANGED <<sp_in, cs_in, cs_out>>
    /\ UNCHANGED taskvars
    /\ UNCHANGED <<rx_closed, tx_closed>>

NextSplit == ApplySplit

SpecSplit == InitSplit /\ [][NextSplit]_vars

\* ------------------------------------------------------------------------
\* read_codes on its own: every obiscodes.csv of at most MaxCsv lines, and
\* telegrams dispatched on the registry it gives
\* ------------------------------------------------------------------------

\* "# c"  ""  "A,v,float,d"  "A,w,Integer,d"  "B,n,Integer,d"
\* "A,v,float" (three fields)  "B,n,bool,d" (no such kind)
CsvLines ==
    { <<35, 32, 99>>,
      <<>>,
      <<65, 44, 118, 44, 102, 108, 111, 97, 116, 44, 100>>,
      <<65, 44, 119, 44, 73, 110, 116, 101, 103, 101, 114, 44, 100>>,
      <<66, 44, 110, 44, 73, 110, 116, 101, 103, 101, 114, 44, 100>>,
      <<65, 44, 118, 44, 102, 108, 111, 97, 116>>,
      <<66, 44, 110, 44, 98, 111, 111, 108, 44, 100>> }

CsvInputs == UNION {[1..n -> CsvLines] : n \in 0..MaxCsv}

\* "A(1)\n"  and  "B(2)\nA(1)\n"
CsvTelegrams ==
    { <<65, 40, 49, 41, 10>>,
      <<66, 40, 50, 41, 10, 65, 40, 49, 41, 10>> }

InitCodes ==
    /\ cs_in \in CsvInputs
    /\ cs_out = None
    /\ sp_in = <<>>
    /\ sp_out = None
    /\ pc = "run"
    /\ link_state = "Ok"
    /\ run_result = "none"
    /\ p1t = <<>>
    /\ state = "LookForStart"
    /\ m_idx = 0
    /\ obis_codes = Registry
    /\ seq_count = 0
    /\ rx_closed = FALSE
    /\ tx_closed = FALSE
    /\ out = <<>>
    /\ ev = NoEvent
    /\ defs_queued = [i \in Pids |-> 0]
    /\ val_ids = {}
    /\ seq_log = <<>>

\* P1Mon::new: `let obis_codes = read_codes()?`
LoadCodes ==
    /\ cs_out = None
    /\ cs_out' = Some(read_codes(cs_in))
    /\ UNCHANGED <<cs_in, sp_in, sp_out>>
    /\ UNCHANGED taskvars
    /\ UNCHANGED <<rx_closed, tx_closed>>

\* process_p1telegram on the loaded registry: the one operation that writes
\* to it after the load
DispatchLoaded ==
    /\ cs_out.some
    /\ cs_out.val.ok
    /\ \E body \in CsvTelegrams : \E now \in NowTimes :
         cs_out' = [cs_out EXCEPT
                      !.val.m = process_p1telegram(@, 0, body, now).obis]
    /\ UNCHANGED <<cs_in, sp_in, sp_out>>
    /\ UNCHANGED taskvars
    /\ UNCHANGED <<rx_closed, tx_closed>>

NextCodes ==
    \/ LoadCodes
    \/ DispatchLoaded

SpecCodes == InitCodes /\ [][NextCodes]_vars

\* ------------------------------------------------------------------------
\* Properties
\* ------------------------------------------------------------------------

\* the codes whose name is "ignore", and the codes whose name is "timestamp"
IgnoreCodes == {c \in DOMAIN Registry : Registry[c].name = STR_ignore}

TsCodes == {c \in DOMAIN Registry : Registry[c].name = STR_timestamp}

\* the codes whose lines carry a value
ValueCodes == (DOMAIN Registry \ IgnoreCodes) \ TsCodes

PidOf(c) == Registry[c].pid

\* the places of the value batches among the messages o
DataMsgs(o) == {i \in 1..Len(o) : o[i].msg.type = "ParameterData"}

\* the step that accepts the buffered telegram, and the body it hands over
AcceptStep == state = "LookForEnd" /\ ev'.what = "accept"

TelegramBody == Slice(p1t, m_idx, Len(p1t))

\* the text before the first '*' of the first group of a line split as r
StrValueOf(r) == Split(r.v[2], STAR)[1]

\* the four characters after '!' are there and read as a hexadecimal number
HexParsable(line) ==
    GetSlice(line, 1, 5).some /\ from_str_radix16(GetSlice(line, 1, 5).val).some

\* C1: for every code whose name is not "ignore", the ParameterDefinition of
\* its numeric id is queued once in all: by the first accepted telegram that
\* names the code (on one line or several), and by no telegram after it, a
\* session restart in between or not
C1_DefinitionOnce ==
    \A c \in DOMAIN Registry \ IgnoreCodes :
        /\ defs_queued[PidOf(c)] = (IF obis_codes[c].defined THEN 1 ELSE 0)
        /\ ev.accept =>
             /\ CountIds(ev.pdefs, PidOf(c))
                  = (IF c \in ev.refs /\ ~ev.obis0[c].defined THEN 1 ELSE 0)
             /\ obis_codes[c].defined = (ev.obis0[c].defined \/ c \in ev.refs)

\* C1: after a restart, a telegram names a code defined before: it queues a
\* value for the code and no definition
C1_Witness ==
    /\ ev.accept
    /\ link_state = "Failed"
    /\ \E c \in ev.refs \ IgnoreCodes :
         /\ ev.obis0[c].defined
         /\ CountIds(ev.pdefs, PidOf(c)) = 0
         /\ CountIds(ev.pvalues, PidOf(c)) > 0

\* C2: the seq_num of the value batches sent grows strictly from each batch to
\* the next, across restarts too; a telegram that queues no value keeps
\* seq_count and sends no value batch, and one that queues values sends one
\* batch with the counter's value and moves the counter on
C2_SeqIncreasing ==
    /\ \A i, j \in 1..Len(seq_log) : i < j => seq_log[i] < seq_log[j]
    /\ (ev.accept /\ ev.pvalues = <<>>) =>
         seq_count = ev.seq0 /\ DataMsgs(out) = {}
    /\ (ev.accept /\ ev.pvalues # <<>>) =>
         /\ seq_count > ev.seq0
         /\ Cardinality(DataMsgs(out)) = 1
         /\ \A i \in DataMsgs(out) : out[i].msg.seq_num = ev.seq0

\* C2: a second value batch has been sent, in a session after a restart
C2_Witness ==
    /\ Len(seq_log) >= 2
    /\ link_state = "Failed"
    /\ ev.accept
    /\ ev.pvalues # <<>>

\* the text decodes as a value of the kind
Decodes(ptype, str_value) ==
    IF ptype = "Float" THEN parse_float(str_value).some
    ELSE IF ptype = "Integer" THEN parse_i64(str_value).some
    ELSE TRUE

\* the lines that name the code c and whose value decodes as the code's kind
GoodValueLines(lines, c) ==
    {i \in 1..Len(lines) :
        /\ LineNames(lines[i], c)
        /\ Decodes(Registry[c].ptype, StrValueOf(split_p1_line(lines[i])))}

C3_RecordsOf(lines) ==
    /\ \A c \in ValueCodes :
         CountIds(ev'.pvalues, PidOf(c)) = Cardinality(GoodValueLines(lines, c))
    /\ (\A c \in ValueCodes : GoodValueLines(lines, c) = {}) =>
         seq_count' = seq_count /\ DataMsgs(out') = {}

\* C3: an accepted telegram queues a value record for the lines whose value
\* decodes as the kind of their code, and for no other line: a Float or
\* Integer line that does not parse queues nothing, and a telegram without a
\* line that decodes sends no value batch and keeps seq_count
C3_UnparsableDropped == [][AcceptStep => C3_RecordsOf(Lines(TelegramBody))]_vars

\* C4: in LookForEnd, a line that starts with '!' and whose four characters
\* after it are missing or are not hexadecimal empties the buffer and puts
\* the framer in LookForStart
C4_BadChecksumResets ==
    (/\ ev.read = "OkN"
     /\ ev.st0 = "LookForEnd"
     /\ ev.line # <<>>
     /\ ev.line[1] = BANG
     /\ ~HexParsable(ev.line))
    => (p1t = <<>> /\ state = "LookForStart")

\* C5: in LookForEnd, an end line with four hexadecimal digits hands the
\* telegram to the dispatcher exactly when it is the good end line (its digits
\* are the CRC of the buffer from '/' through '!'; the other such line of the
\* model, "!0000", is the good one when that CRC is 0 and no other time); on
\* a mismatch nothing is sent and registry and counter stay; either way the
\* buffer ends empty and the framer in LookForStart
C5_AcceptIffChecksum ==
    (/\ ev.read = "OkN"
     /\ ev.st0 = "LookForEnd"
     /\ (ev.good \/ (ev.line[1] = BANG /\ HexParsable(ev.line))))
    => /\ ev.accept <=> ev.good
       /\ p1t = <<>>
       /\ state = "LookForStart"
       /\ ~ev.good =>
            /\ out = <<>>
            /\ ev.pdefs = <<>>
            /\ ev.pvalues = <<>>
            /\ obis_codes = ev.obis0
            /\ seq_count = ev.seq0

\* C5: a checksum that is not the buffer's has been turned down, after
\* telegrams were accepted
C5_Witness ==
    /\ ev.what = "crcfail"
    /\ ev.st0 = "LookForEnd"
    /\ ~ev.good
    /\ ev.seq0 > 0
    /\ p1t = <<>>

\* the timestamps that the timestamp lines among the lines decode to
ParsedTimestamps(lines) ==
    {get_timestamp(StrValueOf(split_p1_line(lines[i]))) :
       i \in {j \in 1..Len(lines) :
                /\ \E c \in TsCodes : LineNames(lines[j], c)
                /\ get_timestamp(StrValueOf(split_p1_line(lines[j]))).some}}

C6_TimesOf(lines) ==
    \A i \in DataMsgs(out') :
        /\ out'[i].msg.acquisition_time = ev'.now
        /\ IF ParsedTimestamps(lines) # {}
           THEN out'[i].msg.generation_time \in ParsedTimestamps(lines)
           ELSE out'[i].msg.generation_time = ev'.now

\* C6: the value batch of an accepted telegram has the receipt time as its
\* acquisition_time; its generation_time is a timestamp of the telegram when
\* a timestamp line of the telegram decoded, and the receipt time when none did
C6_GenerationTime == [][AcceptStep => C6_TimesOf(Lines(TelegramBody))]_vars

\* the places of the parentheses of s, and the k-th of them
ParensOf(s) == {i \in 1..Len(s) : s[i] \in {LPAREN, RPAREN}}

NthOf(P, k) == CHOOSE i \in P : Cardinality({j \in P : j < i}) = k - 1

\* the parentheses come in pairs, '(' then ')', one pair at least
Paired(s, P) ==
    /\ Cardinality(P) >= 2
    /\ Cardinality(P) % 2 = 0
    /\ \A k \in 1..Cardinality(P) :
         s[NthOf(P, k)] = (IF k % 2 = 1 THEN LPAREN ELSE RPAREN)

\* CODE, then what stands inside each pair
PairedPieces(s, P) ==
    <<SubSeq(s, 1, NthOf(P, 1) - 1)>> \o
    [g \in 1..(Cardinality(P) \div 2) |->
        SubSeq(s, NthOf(P, 2 * g - 1) + 1, NthOf(P, 2 * g) - 1)]

\* C7: split_p1_line gives Ok([CODE, g1, .., gn]), CODE the text before the
\* first '(' and g1..gn what the bracket pairs hold in order, when the
\* parentheses are paired and there is a group; it gives an error for every
\* other line: '(' inside a group, ')' outside one, no group, a group left open
C7_SplitGroups ==
    sp_out.some =>
        sp_out.val = (IF Paired(sp_in, ParensOf(sp_in))
                      THEN [ok |-> TRUE, v |-> PairedPieces(sp_in, ParensOf(sp_in))]
                      ELSE [ok |-> FALSE, v |-> <<>>])

\* C7: a line of two groups has been split
C7_Witness == sp_out.some /\ sp_out.val.ok /\ Len(sp_out.val.v) >= 3

\* C8: a code named "ignore" is never marked defined, and neither a
\* ParameterDefinition nor a ParameterValue of its numeric id is ever queued
C8_IgnoreSilent ==
    \A c \in IgnoreCodes :
        /\ ~obis_codes[c].defined
        /\ defs_queued[PidOf(c)] = 0
        /\ PidOf(c) \notin val_ids
        /\ CountIds(ev.pdefs, PidOf(c)) = 0
        /\ CountIds(ev.pvalues, PidOf(c)) = 0

\* C8: a telegram with a line of an "ignore" code has been accepted
C8_Witness == ev.accept /\ ev.refs \cap IgnoreCodes # {}

\* C9: a turn of the read loop makes process_serial_data return an error
\* exactly when read_line gave Ok(0), and then nothing is dispatched or sent;
\* after every other turn (a read error, an end line of any kind, a body line
\* of any kind) the loop is still running
C9_OnlyEofReturns ==
    ev.op = "read" =>
        /\ ev.ret = "Err" <=> ev.read = "Ok0"
        /\ ev.read = "Ok0" =>
             /\ pc = "returned"
             /\ ~ev.accept
             /\ out = <<>>
             /\ obis_codes = ev.obis0
             /\ seq_count = ev.seq0
        /\ ev.read # "Ok0" => pc = "reading" /\ ev.ret = "none"

\* C9: the stream ended while a telegram was being buffered
C9_Witness == ev.read = "Ok0" /\ ev.st0 = "LookForEnd" /\ ev.ret = "Err"

\* C10: a read error, in either framer state, empties the buffer, puts the
\* framer in LookForStart, sends nothing, changes neither registry nor
\* counter, and leaves the loop running
C10_ReadErrorResets ==
    ev.read = "Err" =>
        /\ p1t = <<>>
        /\ state = "LookForStart"
        /\ out = <<>>
        /\ ~ev.accept
        /\ obis_codes = ev.obis0
        /\ seq_count = ev.seq0
        /\ pc = "reading"

\* C10: a read error came while a telegram was being buffered
C10_Witness == ev.read = "Err" /\ ev.st0 = "LookForEnd" /\ p1t = <<>>

\* a turn of the read loop: read_line is called and the loop body runs
ReadTurn ==
    /\ pc = "reading"
    /\ ev'.op = "read"
    /\ rx_closed' = rx_closed
    /\ tx_closed' = tx_closed

\* C11: on every iteration the task looks whether the receiving end of the
\* channel it sends its messages to is closed, and leaves when it is: once
\* that receiver is gone, the read loop takes no further turn
C11_ExitsOnceClosed == [][tx_closed => ~ReadTurn]_vars

\* the lines of the source that are records: not blank, not a comment
CsvRecords(lines) ==
    {i \in 1..Len(lines) : lines[i] # <<>> /\ lines[i][1] # HASH}

\* the code of a record: its text before the first ','
CsvCode(line) ==
    LET P == {k \in 1..Len(line) : line[k] = COMMA} IN
    IF P = {} THEN line
    ELSE SubSeq(line, 1, (CHOOSE k \in P : \A j \in P : k <= j) - 1)

\* the zero-based place of line i among the records
CsvPosition(lines, i) == Cardinality({j \in CsvRecords(lines) : j < i})

\* the last record that carries the code c
LastRecordOf(lines, c) ==
    CHOOSE i \in CsvRecords(lines) :
        /\ CsvCode(lines[i]) = c
        /\ \A j \in CsvRecords(lines) : CsvCode(lines[j]) = c => j <= i

C12_IdsOf(lines, m) ==
    /\ DOMAIN m = {CsvCode(lines[i]) : i \in CsvRecords(lines)}
    /\ \A c \in DOMAIN m : m[c].pid = CsvPosition(lines, LastRecordOf(lines, c))
    /\ \A c, d \in DOMAIN m : c # d => m[c].pid # m[d].pid

\* C12: after a load that succeeded, and after any telegram dispatched since,
\* each code's numeric id is the zero-based place, among the records of the
\* source, of the last record carrying the code; no two codes share an id
C12_NumericIds == (cs_out.some /\ cs_out.val.ok) => C12_IdsOf(cs_in, cs_out.val.m)

\* C12: a source with a code on two records was loaded and a telegram has
\* been dispatched on it
C12_Witness ==
    /\ cs_out.some
    /\ cs_out.val.ok
    /\ \E i, j \in CsvRecords(cs_in) : i < j /\ CsvCode(cs_in[i]) = CsvCode(cs_in[j])
    /\ \E c \in DOMAIN cs_out.val.m : cs_out.val.m[c].defined

\* the places of the timestamp lines among the lines
TsLines(lines) ==
    {j \in 1..Len(lines) : \E c \in TsCodes : LineNames(lines[j], c)}

\* what the timestamp line at place j decodes to
TsAt(lines, j) == get_timestamp(StrValueOf(split_p1_line(lines[j])))

AllTsParse(lines) == \A j \in TsLines(lines) : TsAt(lines, j).some

LastTsLine(lines) == CHOOSE j \in TsLines(lines) : \A k \in TsLines(lines) : k <= j

\* C13: when the timestamp lines of an accepted telegram all decode, the
\* generation_time of its value batch is the timestamp of the last of them
C13_LatestWins ==
    (ev.what = "accept" /\ TsLines(ev.lines) # {} /\ AllTsParse(ev.lines))
    => \A i \in DataMsgs(out) :
         out[i].msg.generation_time = TsAt(ev.lines, LastTsLine(ev.lines))

\* C13: a telegram with two timestamp lines that decode to two times, and a
\* value, has been accepted
C13_Witness ==
    /\ ev.what = "accept"
    /\ AllTsParse(ev.lines)
    /\ \E j, k \in TsLines(ev.lines) : TsAt(ev.lines, j) # TsAt(ev.lines, k)
    /\ DataMsgs(out) # {}

\* the places of the definition batches among the messages o
DefMsgs(o) == {i \in 1..Len(o) : o[i].msg.type = "ParameterDefinitions"}

\* the line names a code that carries a value
IsValueLine(line) == \E c \in ValueCodes : LineNames(line, c)

\* the record of a value line: the code's id and what its text decodes to
RecordOfLine(line) ==
    get_pvalue(Registry[split_p1_line(line).v[1]],
               StrValueOf(split_p1_line(line))).val

\* the records of the value lines, line by line
RecordsInLineOrder(lines) ==
    [k \in 1..Len(SelectSeq(lines, IsValueLine)) |->
        RecordOfLine(SelectSeq(lines, IsValueLine)[k])]

\* C14: an accepted telegram sends at most one definition batch and at most
\* one value batch, the definition batch first; the value batch carries the
\* records of the value lines in the order of the lines; a telegram that
\* queued no definition and no value sends nothing
C14_OneBatchEach ==
    ev.what = "accept" =>
      /\ Cardinality(DefMsgs(out)) <= 1
      /\ Cardinality(DataMsgs(out)) <= 1
      /\ Len(out) = Cardinality(DefMsgs(out)) + Cardinality(DataMsgs(out))
      /\ \A i \in DefMsgs(out) : \A j \in DataMsgs(out) : i < j
      /\ DefMsgs(out) # {} <=> ev.pdefs # <<>>
      /\ DataMsgs(out) # {} <=> ev.pvalues # <<>>
      /\ \A i \in DefMsgs(out) : out[i].msg.definitions = ev.pdefs
      /\ \A j \in DataMsgs(out) :
           out[j].msg.parameters = RecordsInLineOrder(ev.lines)

\* C14: a telegram with two value lines that give two records has sent its
\* definition batch and its value batch
C14_Witness ==
    /\ ev.what = "accept"
    /\ DefMsgs(out) # {}
    /\ \E j \in DataMsgs(out) :
         /\ Len(out[j].msg.parameters) >= 2
         /\ out[j].msg.parameters[1] # out[j].msg.parameters[2]

\* split_p1_line refuses the line, or the registry has no entry for its code
IsSkippedLine(line) ==
    \/ ~split_p1_line(line).ok
    \/ split_p1_line(line).v[1] \notin DOMAIN Registry

\* the lines without the one at place j
WithoutLine(lines, j) ==
    [k \in 1..(Len(lines) - 1) |-> IF k < j THEN lines[k] ELSE lines[k + 1]]

\* what the last step's telegram gives when its lines are `lines`
DispatchOf(lines) ==
    send_queued(process_lines(DispatchStart(ev.obis0), lines, 1),
                ev.seq0, ev.now.val)

\* C15: a line of an accepted telegram that split_p1_line refuses, or whose
\* code the registry does not have, changes nothing: registry, counter,
\* queued definitions and values and the messages sent are those of the
\* telegram without the line, so the lines after it are processed
C15_BadLineSkipped ==
    ev.what = "accept" =>
      \A j \in 1..Len(ev.lines) :
        IsSkippedLine(ev.lines[j]) =>
          /\ obis_codes = DispatchOf(WithoutLine(ev.lines, j)).obis
          /\ seq_count = DispatchOf(WithoutLine(ev.lines, j)).seq
          /\ ev.pdefs = DispatchOf(WithoutLine(ev.lines, j)).pdefs
          /\ ev.pvalues = DispatchOf(WithoutLine(ev.lines, j)).pvalues
          /\ out = Sent(DispatchOf(WithoutLine(ev.lines, j)).msgs)

\* C15: a telegram was accepted in which a line that split_p1_line refuses
\* and a line of an unknown code both stand before a line that queued a
\* definition and a value
C15_Witness ==
    /\ ev.what = "accept"
    /\ Len(ev.lines) >= 3
    /\ ~split_p1_line(ev.lines[1]).ok
    /\ split_p1_line(ev.lines[2]).ok
    /\ split_p1_line(ev.lines[2]).v[1] \notin DOMAIN Registry
    /\ IsValueLine(ev.lines[3])
    /\ ev.pdefs # <<>>
    /\ ev.pvalues # <<>>

\* the codes that the last step's telegram defined
NewlyDefined ==
    {c \in DOMAIN Registry :
        \/ obis_codes[c].defined /\ ~ev.obis0[c].defined
        \/ CountIds(ev.pdefs, PidOf(c)) > 0}

\* C16: an accepted telegram queues the definition of a code, and sets its
\* defined flag, only when one of its lines gives the code a value that
\* decodes; a code named 'timestamp' is never defined and has no definition
C16_DefinedWithValue ==
    /\ ev.what = "accept" =>
         \A c \in NewlyDefined :
            c \in ValueCodes /\ GoodValueLines(ev.lines, c) # {}
    /\ \A c \in TsCodes : ~obis_codes[c].defined /\ defs_queued[PidOf(c)] = 0

\* a send of the last step failed
SendFailed == \E i \in 1..Len(out) : ~out[i].ok

\* C17: when a send of an accepted telegram's batches fails, the read loop
\* goes on without an error and what the telegram wrote stays: the codes it
\* defined keep defined = true and seq_count stays moved on; no definition
\* is ever queued a second time
C17_FailedSendKeepsState ==
    /\ (ev.what = "accept" /\ SendFailed) =>
         /\ pc = "reading"
         /\ ev.ret = "none"
         /\ \A c \in DOMAIN Registry :
              CountIds(ev.pdefs, PidOf(c)) > 0 => obis_codes[c].defined
         /\ seq_count = ev.seq0 + (IF ev.pvalues # <<>> THEN 1 ELSE 0)
    /\ \A c \in DOMAIN Registry : defs_queued[PidOf(c)] <= 1

\* C17: the send of a value batch has failed, for a telegram after the
\* first whose codes were defined before: it queued no definition
C17_Witness ==
    /\ ev.what = "accept"
    /\ SendFailed
    /\ ev.seq0 > 0
    /\ ev.pdefs = <<>>
    /\ ev.pvalues # <<>>
    /\ \A c \in DOMAIN Registry :
         CountIds(ev.pvalues, PidOf(c)) > 0 => ev.obis0[c].defined

\* the length of the first line of the buffer, its line end included
FirstLineLen(buf) ==
    CHOOSE i \in 1..Len(buf) : buf[i] = NL /\ \A j \in 1..(i - 1) : buf[j] # NL

\* C18: at the top of each turn of the read loop, the buffer is empty in
\* LookForStart; in LookForEnd it is not empty, starts with '/', and m_idx is
\* the length of the start line it holds, which is at most the buffer's
C18_FramerInvariant ==
    pc = "reading" =>
      /\ state = "LookForStart" => p1t = <<>>
      /\ state = "LookForEnd" =>
           /\ p1t # <<>>
           /\ p1t[1] = SLASH
           /\ \E i \in 1..Len(p1t) : p1t[i] = NL
           /\ m_idx = FirstLineLen(p1t)
           /\ m_idx <= Len(p1t)

\* C18: the loop is at its top in LookForEnd with lines buffered after the
\* start line, the last of them an end line whose checksum is not
\* hexadecimal, in a session after a restart
C18_Witness ==
    /\ pc = "reading"
    /\ state = "LookForEnd"
    /\ ev.what = "badhex"
    /\ Len(p1t) > m_idx
    /\ link_state = "Failed"

\* a turn of the read loop that starts in LookForEnd and leaves the loop
\* running
EndTurn ==
    /\ ReadTurn
    /\ state = "LookForEnd"
    /\ pc' = "reading"

\* the line read starts with the character ch
LineStarts(ch) == ev'.line # <<>> /\ ev'.line[1] = ch

\* a line that starts with '/' is appended; state and m_idx stay
C19_StartAppended ==
    (ev'.read = "OkN" /\ LineStarts(SLASH)) =>
        /\ p1t' = p1t \o ev'.line
        /\ state' = "LookForEnd"
        /\ m_idx' = m_idx

\* the telegram is dispatched only on the end line whose checksum is the CRC
\* of the buffer from its first character through the '!'
C19_CombinedCrc == ev'.accept => ev'.good

\* the turn read an end line with four hexadecimal digits, or failed to read
ReleasedByChecksum ==
    \/ ev'.read = "Err"
    \/ ev'.good
    \/ LineStarts(BANG) /\ HexParsable(ev'.line)

\* the turn read an end line with fewer than four characters after the '!'
ReleasedByShortEnd == LineStarts(BANG) /\ ~GetSlice(ev'.line, 1, 5).some

\* C19 as stated: in LookForEnd a line that starts with '/' is appended with
\* state and m_idx unchanged, the telegram is dispatched only when the CRC
\* from the first start marker matches, and the buffer is emptied only by an
\* end line with four hexadecimal digits or by a read error
C19_ReleasedOnlyByChecksum ==
    [][EndTurn =>
         /\ C19_StartAppended
         /\ C19_CombinedCrc
         /\ p1t' = <<>> => ReleasedByChecksum]_vars

\* C19 amended: as above, but the buffer is emptied by an end line with four
\* hexadecimal digits, by an end line with fewer than four characters after
\* the '!', or by a read error, and by nothing else while the loop runs; an
\* end line whose four characters are not hexadecimal is appended
C19_ReleasedByEndLine ==
    [][EndTurn =>
         /\ C19_StartAppended
         /\ C19_CombinedCrc
         /\ p1t' = <<>> <=> (ReleasedByChecksum \/ ReleasedByShortEnd)
         /\ p1t' # <<>> => p1t' = p1t \o ev'.line /\ state' = "LookForEnd"]_vars

\* C19: a buffer that held a second start line after the first was closed by
\* the end line whose checksum is the CRC of all of it, and dispatched
C19_Witness ==
    /\ ev.what = "accept"
    /\ ev.good
    /\ \E j \in 1..Len(ev.lines) : ev.lines[j] # <<>> /\ ev.lines[j][1] = SLASH
    /\ ev.pvalues # <<>>

\* the codes of the registry with the numeric id
CodesOfId(id) == {c \in DOMAIN Registry : PidOf(c) = id}

\* the definition of the id went out with an earlier telegram, or stands in
\* the definition batch sent before the value batch of the last one
DefinedBefore(id) ==
    \/ \E c \in CodesOfId(id) : ev.obis0[c].defined /\ defs_queued[id] >= 1
    \/ /\ CountIds(ev.pdefs, id) >= 1
       /\ \A j \in DataMsgs(out) :
            \E i \in DefMsgs(out) :
               i < j /\ CountIds(out[i].msg.definitions, id) >= 1

\* C20: every value record queued so far carries the numeric id of a code
\* whose defined flag is set and whose definition has been queued; for the
\* records of the last telegram the definition was queued by an earlier
\* telegram or stands in the definition batch sent before the value batch
C20_ValuesOfDefined ==
    /\ \A id \in val_ids :
         /\ CodesOfId(id) # {}
         /\ \A c \in CodesOfId(id) : obis_codes[c].defined
         /\ defs_queued[id] >= 1
    /\ ev.what = "accept" =>
         \A k \in 1..Len(ev.pvalues) : DefinedBefore(ev.pvalues[k].id)

\* C20: a telegram queued a value for a code it was the first to name, and
\* the definition went out in the batch before the value batch
C20_Witness ==
    /\ ev.what = "accept"
    /\ \E c \in ValueCodes :
         /\ ~ev.obis0[c].defined
         /\ CountIds(ev.pvalues, PidOf(c)) >= 1
         /\ CountIds(ev.pdefs, PidOf(c)) = 1
    /\ DefMsgs(out) # {}
    /\ DataMsgs(out) # {}

====
